---- MODULE Spec2Model ----
(***************************************************************************)
(* GhostOdds: the encrypted dice ledger of contracts/GhostOdds.sol.        *)
(*                                                                         *)
(* Unsigned integers keep their Solidity width.  A value is a little-      *)
(* endian sequence of base-256 limbs: uint256 has 32 limbs, euint64 has 8, *)
(* euint32 has 4 and an ebool has 1.  A ciphertext handle names its        *)
(* plaintext in the coprocessor's store `ciphertexts`; NoHandle is the     *)
(* uninitialised (all-zero) handle.                                        *)
(***************************************************************************)
EXTENDS Integers, Sequences, FiniteSets, TLC

VARIABLES encryptedBalances, joinedPlayers, rounds, acl, ciphertexts, txCount, last,
          readData, decryptedData, statusMessage, call, task

vars == <<encryptedBalances, joinedPlayers, rounds, acl, ciphertexts, txCount, last,
          readData, decryptedData, statusMessage, call, task>>

ledger == <<encryptedBalances, joinedPlayers, rounds, acl, ciphertexts>>

\* The state of the clients of one wallet: the web app (app/src/config/wagmi.ts)
\* and the command-line task decrypt-round.
client == <<readData, decryptedData, statusMessage, call, task>>

(***************************************************************************)
(* Bounds of the model and constants of the program.                       *)
(***************************************************************************)
MaxTx == 4

\* Successful transactions of the wallet while its clients run.
MaxWalletTx == 3

\* One limb is one byte.
Base == 2 ^ 8

POINTS_PER_ETH == 10000

ROUND_REWARD == 1000

\* The all-zero handle of a value that was never set (ethers.ZeroHash).
NoHandle == <<"0x0", 0>>

Players == {"alice", "bob"}

This == "GhostOdds"

OtherContract == "OtherContract"

Principals == Players \cup {This}

(***************************************************************************)
(* Fixed-width arithmetic on limb sequences.                               *)
(***************************************************************************)
RECURSIVE LimbsOf(_, _)
LimbsOf(k, n) == IF n = 0 THEN <<>> ELSE <<k % Base>> \o LimbsOf(k \div Base, n - 1)

ZeroW(n) == [i \in 1..n |-> 0]

IsZeroW(a) == \A i \in 1..Len(a) : a[i] = 0

\* a resized to n limbs: truncated (an explicit narrowing cast) or zero-extended.
ResizeW(a, n) == [i \in 1..n |-> IF i <= Len(a) THEN a[i] ELSE 0]

RECURSIVE AddCarry(_, _, _, _)
AddCarry(a, b, i, carry) ==
    IF i > Len(a) THEN <<carry>>
    ELSE LET s == a[i] + b[i] + carry
         IN  <<s % Base>> \o AddCarry(a, b, i + 1, s \div Base)

\* a + b with the carry out as an extra top limb (Len(a) + 1 limbs).
AddFullW(a, b) == AddCarry(a, b, 1, 0)

\* a + b modulo Base^Len(a): the wrapping addition of the encrypted types.
AddW(a, b) == SubSeq(AddFullW(a, b), 1, Len(a))

RECURSIVE MulSmallCarry(_, _, _, _)
MulSmallCarry(a, k, i, carry) ==
    IF i > Len(a) THEN <<carry % Base, carry \div Base>>
    ELSE LET s == a[i] * k + carry
         IN  <<s % Base>> \o MulSmallCarry(a, k, i + 1, s \div Base)

\* a * k for a scalar k < Base^2, exact, in Len(a) + 2 limbs.
MulSmallFullW(a, k) == MulSmallCarry(a, k, 1, 0)

RECURSIVE DivSmallStep(_, _, _, _)
DivSmallStep(a, k, i, rem) ==
    IF i = 0 THEN <<>>
    ELSE LET cur == rem * Base + a[i]
         IN  DivSmallStep(a, k, i - 1, cur % k) \o <<cur \div k>>

\* floor(a / k) for a scalar 0 < k < Base^2.
DivSmallW(a, k) == DivSmallStep(a, k, Len(a), 0)

RECURSIVE RemSmallStep(_, _, _, _)
RemSmallStep(a, k, i, rem) ==
    IF i = 0 THEN rem ELSE RemSmallStep(a, k, i - 1, (rem * Base + a[i]) % k)

\* a mod k for a scalar 0 < k < Base^2, as a number.
RemSmallW(a, k) == RemSmallStep(a, k, Len(a), 0)

RECURSIVE GtFrom(_, _, _)
GtFrom(a, b, i) ==
    IF i = 0 THEN FALSE
    ELSE IF a[i] # b[i] THEN a[i] > b[i]
    ELSE GtFrom(a, b, i - 1)

\* a > b for two values of the same width.
GtW(a, b) == GtFrom(a, b, Len(a))

RECURSIVE MulAcc(_, _, _)
MulAcc(a, b, j) ==
    IF j > Len(b) THEN ZeroW(Len(a))
    ELSE LET n == Len(a)
             part == ResizeW(MulSmallFullW(a, b[j]), n)
             shifted == [i \in 1..n |-> IF i < j THEN 0 ELSE part[i - j + 1]]
         IN  AddW(shifted, MulAcc(a, b, j + 1))

\* a * b modulo Base^Len(a): the wrapping multiplication of the encrypted types.
MulW(a, b) == MulAcc(a, b, 1)

(***************************************************************************)
(* Inputs of the calls.                                                    *)
(***************************************************************************)
\* msg.value (uint256, in wei) of the joinGame calls that are tried.
DepositZero == ZeroW(32)

\* 10^14 - 1 wei: one wei short of a single point.
DepositDust == <<255,63,122,16,243,90>> \o ZeroW(26)

\* 10^14 wei = 0.0001 ether: exactly one point.
DepositOnePoint == <<0,64,122,16,243,90>> \o ZeroW(26)

\* (2^64 - 1000) * 10^14 + 5 wei: 2^64 - 1000 points.
DepositNearMax == <<5,0,118,162,135,186,156,254,255,63,122,16,243,90>> \o ZeroW(18)

\* 2^64 * 10^14 wei: 2^64 points before the narrowing cast.
DepositWrapZero == <<0,0,0,0,0,0,0,0,0,64,122,16,243,90>> \o ZeroW(18)

\* 2^256 - 1 wei: msg.value * POINTS_PER_ETH leaves uint256.
DepositMaxU256 == [i \in 1..32 |-> 255]

Deposits ==
    { DepositZero, DepositDust, DepositOnePoint, DepositNearMax,
      DepositWrapZero, DepositMaxU256 }

\* Values the randomness source may return (uint32): 4294967294, 4294967295
\* and 5, which give the dice 3, 4 and 6.
RandValues == { <<254,255,255,255>>, <<255,255,255,255>>, <<5,0,0,0>> }

\* A wider set of random values: every residue modulo 6 (0..5), the first
\* value that wraps around (6), a multi-limb value (2^31) and the two largest.
DiceSeeds ==
    RandValues \cup
    { <<0,0,0,0>>, <<1,0,0,0>>, <<2,0,0,0>>, <<3,0,0,0>>, <<4,0,0,0>>,
      <<6,0,0,0>>, <<0,0,0,128>> }

\* Cleartext guesses a client may encrypt (uint32): 1, 2 and 2^32 - 1.
Guesses == { <<1,0,0,0>>, <<2,0,0,0>>, <<255,255,255,255>> }

\* An input proof binds the external ciphertext to a user and a contract.
Proofs == [user : Players, contractAddress : {This, OtherContract}]

(***************************************************************************)
(* The FHE library as the contract uses it.  Every operation stores a new  *)
(* ciphertext and returns a handle nobody holds a grant on.  The store     *)
(* keeps, per transaction sender, the plaintexts in the order they were    *)
(* produced; a handle names the sender and the position.  The operators    *)
(* below return the store after the operation of sender p, and Handle      *)
(* gives the handle of p's latest ciphertext.                              *)
(***************************************************************************)
Handle(cts, p) == <<p, Len(cts[p])>>

Plain(cts, h) == cts[h[1]][h[2]]

Store(cts, p, w) == [cts EXCEPT ![p] = Append(@, w)]

FHE_asEuint32(cts, p, k) == Store(cts, p, LimbsOf(k, 4))

FHE_asEuint64(cts, p, w) == Store(cts, p, ResizeW(w, 8))

FHE_randEuint32(cts, p, rnd) == Store(cts, p, rnd)

\* Mutant: the remainder is taken modulo k + 1.
FHE_rem_OffByOne(cts, p, a, k) ==
    Store(cts, p, LimbsOf(RemSmallW(Plain(cts, a), k + 1), Len(Plain(cts, a))))

FHE_rem(cts, p, a, k) ==
    Store(cts, p, LimbsOf(RemSmallW(Plain(cts, a), k), Len(Plain(cts, a))))

FHE_add(cts, p, a, b) == Store(cts, p, AddW(Plain(cts, a), Plain(cts, b)))

FHE_mul(cts, p, a, b) == Store(cts, p, MulW(Plain(cts, a), Plain(cts, b)))

\* Mutant: greater-or-equal where the contract asks for greater-than.
FHE_gt_OrEqual(cts, p, a, b) ==
    Store(cts, p, IF ~GtW(Plain(cts, b), Plain(cts, a)) THEN <<1>> ELSE <<0>>)

FHE_gt(cts, p, a, b) ==
    Store(cts, p, IF GtW(Plain(cts, a), Plain(cts, b)) THEN <<1>> ELSE <<0>>)

FHE_eq(cts, p, a, b) ==
    Store(cts, p, IF Plain(cts, a) = Plain(cts, b) THEN <<1>> ELSE <<0>>)

FHE_select(cts, p, c, a, b) ==
    Store(cts, p, IF Plain(cts, c) = <<1>> THEN Plain(cts, a) ELSE Plain(cts, b))

FHE_fromExternal(cts, p, guess) == Store(cts, p, guess)

\* The ACL's check that `who` holds a grant on h.
IsAllowed(h, who) == <<h, who>> \in acl

\* The cleartext a handle decrypts to.
Decrypt(h) == Plain(ciphertexts, h)

(***************************************************************************)
(* State after deployment.                                                 *)
(***************************************************************************)
EmptyRound ==
    [diceResult |-> NoHandle, lastGuess |-> NoHandle, winFlag |-> NoHandle,
     isActive |-> FALSE, hasHistory |-> FALSE]

NoCall == [op |-> "none", sender |-> "none", status |-> "none", ret |-> <<>>]

\* The wallet the clients are connected to.
Wallet == "alice"

\* The semantic fields of the decrypted snapshot, in the order of the request.
Fields == <<"balance", "dice", "guess", "outcome">>

FieldNames == { Fields[i] : i \in 1..Len(Fields) }

\* The data of a contract read that has not returned yet (undefined).
Undefined == <<"undefined", 0>>

\* A field of the snapshot that holds no number (null).
Null == <<>>

\* No handleDecrypt call is in progress: no keypair, no signature request, no
\* request to the relayer.
IdleCall ==
    [pc |-> "idle", data |-> [f \in FieldNames |-> Undefined], handles |-> <<>>,
     keypair |-> FALSE, signature |-> FALSE, request |-> <<>>]

\* The decrypt-round task is not running.
IdleTask ==
    [pc |-> "idle", dice |-> Undefined, guess |-> Undefined, outcome |-> Undefined,
     requested |-> <<>>, log |-> ""]

Init ==
    /\ readData = [f \in FieldNames |-> Undefined]
    /\ decryptedData = [f \in FieldNames |-> Null]
    /\ statusMessage = ""
    /\ call = IdleCall
    /\ task = IdleTask
    /\ encryptedBalances = [p \in Players |-> NoHandle]
    /\ joinedPlayers = [p \in Players |-> FALSE]
    /\ rounds = [p \in Players |-> EmptyRound]
    /\ acl = {}
    /\ ciphertexts = [p \in Players |-> <<>>]
    /\ txCount = 0
    /\ last = NoCall

\* A reverted call: every storage write, ciphertext and grant is rolled back.
Revert(op, p, status) ==
    /\ last' = [op |-> op, sender |-> p, status |-> status, ret |-> <<>>]
    /\ UNCHANGED <<ledger, txCount>>

(***************************************************************************)
(* joinGame                                                                *)
(***************************************************************************)
\* 1 ether = 10^18 = 10^4 * 10^4 * 10^4 * 10^4 * 10^2.
DivEtherW(a) ==
    DivSmallW(DivSmallW(DivSmallW(DivSmallW(DivSmallW(a, 10000), 10000), 10000), 10000), 100)

\* msg.value * POINTS_PER_ETH is checked uint256 arithmetic.
MulOverflows(value) ==
    LET prod == MulSmallFullW(value, POINTS_PER_ETH)
    IN  prod[33] # 0 \/ prod[34] # 0

\* Mutant: the division is by 10^17, a rate of 100,000 points per ether.
mintedPointsOf_WrongRate(value) ==
    LET prod == ResizeW(MulSmallFullW(value, POINTS_PER_ETH), 32)
    IN  ResizeW(DivSmallW(DivSmallW(DivSmallW(DivSmallW(DivSmallW(
            prod, 10000), 10000), 10000), 10000), 10), 8)

\* uint64((msg.value * POINTS_PER_ETH) / 1 ether)
mintedPointsOf(value) ==
    ResizeW(DivEtherW(ResizeW(MulSmallFullW(value, POINTS_PER_ETH), 32)), 8)

\* The arithmetic of line 47 for each deposit that is tried, computed once.
DepositArithmetic ==
    [value \in Deposits |->
        [overflows |-> MulOverflows(value),
         mintedPoints |-> IF MulOverflows(value) THEN ZeroW(8) ELSE mintedPointsOf(value)]]

\* Mutant: the second InvalidDeposit check (mintedPoints == 0) is missing.
joinGameStatus_NoMintCheck(p, value) ==
    IF IsZeroW(value) THEN "InvalidDeposit"
    ELSE IF DepositArithmetic[value].overflows THEN "Panic"
    ELSE IF encryptedBalances[p] # NoHandle /\ ~IsAllowed(encryptedBalances[p], This)
         THEN "ACLNotAllowed"
    ELSE "ok"

joinGameStatus(p, value) ==
    IF IsZeroW(value) THEN "InvalidDeposit"
    ELSE IF DepositArithmetic[value].overflows THEN "Panic"
    ELSE IF IsZeroW(DepositArithmetic[value].mintedPoints) THEN "InvalidDeposit"
    ELSE IF encryptedBalances[p] # NoHandle /\ ~IsAllowed(encryptedBalances[p], This)
         THEN "ACLNotAllowed"
    ELSE "ok"

\* The grants of joinGame on the new balance handle.
\* Mutant: only the contract is granted on the new balance handle.
joinGameGrants_NoPlayer(p, balance) == { <<balance, This>> }

\* Mutant: every participant is granted on the new balance handle.
joinGameGrants_AllPlayers(p, balance) ==
    { <<balance, This>> } \cup { <<balance, q>> : q \in Players }

joinGameGrants(p, balance) == { <<balance, This>>, <<balance, p>> }

\* Mutant: a second deposit clears the joined flag.
joinGame_TogglesJoined(p, value) ==
    LET status == joinGameStatus(p, value)
    IN  IF status # "ok" THEN Revert("joinGame", p, status)
        ELSE
          LET mintedPoints == DepositArithmetic[value].mintedPoints
              c1 == FHE_asEuint64(ciphertexts, p, mintedPoints)
              encryptedMint == Handle(c1, p)
              \* FHE.add replaces an uninitialised operand by an encrypted zero.
              c2 == IF encryptedBalances[p] = NoHandle
                    THEN FHE_asEuint64(c1, p, ZeroW(8)) ELSE c1
              old == IF encryptedBalances[p] = NoHandle
                     THEN Handle(c2, p) ELSE encryptedBalances[p]
              c3 == FHE_add(c2, p, old, encryptedMint)
              balance == Handle(c3, p)
          IN  /\ txCount < MaxTx
              /\ ciphertexts' = c3
              /\ encryptedBalances' = [encryptedBalances EXCEPT ![p] = balance]
              /\ acl' = acl \cup joinGameGrants(p, balance)
              /\ joinedPlayers' = [joinedPlayers EXCEPT ![p] = ~joinedPlayers[p]]
              /\ txCount' = txCount + 1
              /\ last' = [op |-> "joinGame", sender |-> p, status |-> "ok",
                          ret |-> mintedPoints]
              /\ UNCHANGED rounds

\* Mutant: a deposit wipes the caller's round record.
joinGame_ResetsRound(p, value) ==
    LET status == joinGameStatus(p, value)
    IN  IF status # "ok" THEN Revert("joinGame", p, status)
        ELSE
          LET mintedPoints == DepositArithmetic[value].mintedPoints
              c1 == FHE_asEuint64(ciphertexts, p, mintedPoints)
              encryptedMint == Handle(c1, p)
              \* FHE.add replaces an uninitialised operand by an encrypted zero.
              c2 == IF encryptedBalances[p] = NoHandle
                    THEN FHE_asEuint64(c1, p, ZeroW(8)) ELSE c1
              old == IF encryptedBalances[p] = NoHandle
                     THEN Handle(c2, p) ELSE encryptedBalances[p]
              c3 == FHE_add(c2, p, old, encryptedMint)
              balance == Handle(c3, p)
          IN  /\ txCount < MaxTx
              /\ ciphertexts' = c3
              /\ encryptedBalances' = [encryptedBalances EXCEPT ![p] = balance]
              /\ acl' = acl \cup joinGameGrants(p, balance)
              /\ joinedPlayers' = [joinedPlayers EXCEPT ![p] = TRUE]
              /\ txCount' = txCount + 1
              /\ last' = [op |-> "joinGame", sender |-> p, status |-> "ok",
                          ret |-> mintedPoints]
              /\ rounds' = [rounds EXCEPT ![p] = EmptyRound]

\* Mutant: a deposit marks every participant as joined.
joinGame_JoinsEveryone(p, value) ==
    LET status == joinGameStatus(p, value)
    IN  IF status # "ok" THEN Revert("joinGame", p, status)
        ELSE
          LET mintedPoints == DepositArithmetic[value].mintedPoints
              c1 == FHE_asEuint64(ciphertexts, p, mintedPoints)
              encryptedMint == Handle(c1, p)
              \* FHE.add replaces an uninitialised operand by an encrypted zero.
              c2 == IF encryptedBalances[p] = NoHandle
                    THEN FHE_asEuint64(c1, p, ZeroW(8)) ELSE c1
              old == IF encryptedBalances[p] = NoHandle
                     THEN Handle(c2, p) ELSE encryptedBalances[p]
              c3 == FHE_add(c2, p, old, encryptedMint)
              balance == Handle(c3, p)
          IN  /\ txCount < MaxTx
              /\ ciphertexts' = c3
              /\ encryptedBalances' = [encryptedBalances EXCEPT ![p] = balance]
              /\ acl' = acl \cup joinGameGrants(p, balance)
              /\ joinedPlayers' = [q \in Players |-> TRUE]
              /\ txCount' = txCount + 1
              /\ last' = [op |-> "joinGame", sender |-> p, status |-> "ok",
                          ret |-> mintedPoints]
              /\ UNCHANGED rounds

joinGame(p, value) ==
    LET status == joinGameStatus(p, value)
    IN  IF status # "ok" THEN Revert("joinGame", p, status)
        ELSE
          LET mintedPoints == DepositArithmetic[value].mintedPoints
              c1 == FHE_asEuint64(ciphertexts, p, mintedPoints)
              encryptedMint == Handle(c1, p)
              \* FHE.add replaces an uninitialised operand by an encrypted zero.
              c2 == IF encryptedBalances[p] = NoHandle
                    THEN FHE_asEuint64(c1, p, ZeroW(8)) ELSE c1
              old == IF encryptedBalances[p] = NoHandle
                     THEN Handle(c2, p) ELSE encryptedBalances[p]
              c3 == FHE_add(c2, p, old, encryptedMint)
              balance == Handle(c3, p)
          IN  /\ txCount < MaxTx
              /\ ciphertexts' = c3
              /\ encryptedBalances' = [encryptedBalances EXCEPT ![p] = balance]
              /\ acl' = acl \cup joinGameGrants(p, balance)
              /\ joinedPlayers' = [joinedPlayers EXCEPT ![p] = TRUE]
              /\ txCount' = txCount + 1
              /\ last' = [op |-> "joinGame", sender |-> p, status |-> "ok",
                          ret |-> mintedPoints]
              /\ UNCHANGED rounds

(***************************************************************************)
(* startRound                                                              *)
(***************************************************************************)
\* Mutant: the RoundAlreadyActive check is missing.
startRoundStatus_NoActiveCheck(p) ==
    IF ~joinedPlayers[p] THEN "PlayerNotJoined" ELSE "ok"

\* Mutant: the PlayerNotJoined check is missing.
startRoundStatus_NoJoinCheck(p) ==
    IF rounds[p].isActive THEN "RoundAlreadyActive" ELSE "ok"

startRoundStatus(p) ==
    IF ~joinedPlayers[p] THEN "PlayerNotJoined"
    ELSE IF rounds[p].isActive THEN "RoundAlreadyActive"
    ELSE "ok"

\* Mutant: startRound also lets the participant decrypt the fresh dice.
startRoundGrants_DiceToPlayer(p, dice, guess, win) ==
    { <<dice, This>>, <<guess, This>>, <<win, This>>, <<dice, p>> }

\* The grants of startRound on the three new round handles.
\* Mutant: the contract is not granted on the new dice handle (line 83 missing).
startRoundGrants_NoDiceThis(p, dice, guess, win) == { <<guess, This>>, <<win, This>> }

startRoundGrants(p, dice, guess, win) == { <<dice, This>>, <<guess, This>>, <<win, This>> }

\* Mutant: a new round keeps the win flag of the previous resolved round.
startRound_KeepsWinFlag(p, rnd) ==
    LET status == startRoundStatus(p)
    IN  IF status # "ok" THEN Revert("startRound", p, status)
        ELSE
          LET c1 == FHE_randEuint32(ciphertexts, p, rnd)
              c2 == FHE_rem(c1, p, Handle(c1, p), 6)
              diceZeroToFive == Handle(c2, p)
              c3 == FHE_asEuint32(c2, p, 1)
              c4 == FHE_add(c3, p, diceZeroToFive, Handle(c3, p))
              diceValue == Handle(c4, p)
              c5 == FHE_asEuint32(c4, p, 0)
              c6 == FHE_asEuint32(c5, p, 0)
          IN  /\ txCount < MaxTx
              /\ ciphertexts' = c6
              /\ rounds' = [rounds EXCEPT ![p] =
                              [diceResult |-> diceValue, lastGuess |-> Handle(c5, p),
                               winFlag |-> IF rounds[p].hasHistory THEN rounds[p].winFlag
                                          ELSE Handle(c6, p), isActive |-> TRUE,
                               hasHistory |-> rounds[p].hasHistory]]
              /\ acl' = acl \cup startRoundGrants(p, diceValue, Handle(c5, p), Handle(c6, p))
              /\ txCount' = txCount + 1
              /\ last' = [op |-> "startRound", sender |-> p, status |-> "ok", ret |-> <<>>]
              /\ UNCHANGED <<encryptedBalances, joinedPlayers>>

\* Mutant: the round is not marked active.
startRound_LeavesInactive(p, rnd) ==
    LET status == startRoundStatus(p)
    IN  IF status # "ok" THEN Revert("startRound", p, status)
        ELSE
          LET c1 == FHE_randEuint32(ciphertexts, p, rnd)
              c2 == FHE_rem(c1, p, Handle(c1, p), 6)
              diceZeroToFive == Handle(c2, p)
              c3 == FHE_asEuint32(c2, p, 1)
              c4 == FHE_add(c3, p, diceZeroToFive, Handle(c3, p))
              diceValue == Handle(c4, p)
              c5 == FHE_asEuint32(c4, p, 0)
              c6 == FHE_asEuint32(c5, p, 0)
          IN  /\ txCount < MaxTx
              /\ ciphertexts' = c6
              /\ rounds' = [rounds EXCEPT ![p] =
                              [diceResult |-> diceValue, lastGuess |-> Handle(c5, p),
                               winFlag |-> Handle(c6, p), isActive |-> FALSE,
                               hasHistory |-> rounds[p].hasHistory]]
              /\ acl' = acl \cup startRoundGrants(p, diceValue, Handle(c5, p), Handle(c6, p))
              /\ txCount' = txCount + 1
              /\ last' = [op |-> "startRound", sender |-> p, status |-> "ok", ret |-> <<>>]
              /\ UNCHANGED <<encryptedBalances, joinedPlayers>>

\* Mutant: a new round revokes the participant's grants on the previous round's handles.
startRound_RevokesOld(p, rnd) ==
    LET status == startRoundStatus(p)
    IN  IF status # "ok" THEN Revert("startRound", p, status)
        ELSE
          LET c1 == FHE_randEuint32(ciphertexts, p, rnd)
              c2 == FHE_rem(c1, p, Handle(c1, p), 6)
              diceZeroToFive == Handle(c2, p)
              c3 == FHE_asEuint32(c2, p, 1)
              c4 == FHE_add(c3, p, diceZeroToFive, Handle(c3, p))
              diceValue == Handle(c4, p)
              c5 == FHE_asEuint32(c4, p, 0)
              c6 == FHE_asEuint32(c5, p, 0)
          IN  /\ txCount < MaxTx
              /\ ciphertexts' = c6
              /\ rounds' = [rounds EXCEPT ![p] =
                              [diceResult |-> diceValue, lastGuess |-> Handle(c5, p),
                               winFlag |-> Handle(c6, p), isActive |-> TRUE,
                               hasHistory |-> rounds[p].hasHistory]]
              /\ acl' = (acl \ { <<rounds[p].diceResult, p>>, <<rounds[p].lastGuess, p>>,
                                <<rounds[p].winFlag, p>> })
                        \cup startRoundGrants(p, diceValue, Handle(c5, p), Handle(c6, p))
              /\ txCount' = txCount + 1
              /\ last' = [op |-> "startRound", sender |-> p, status |-> "ok", ret |-> <<>>]
              /\ UNCHANGED <<encryptedBalances, joinedPlayers>>

\* Mutant: a new round keeps the stored guess handle instead of a fresh encrypted zero.
startRound_KeepsLastGuess(p, rnd) ==
    LET status == startRoundStatus(p)
    IN  IF status # "ok" THEN Revert("startRound", p, status)
        ELSE
          LET c1 == FHE_randEuint32(ciphertexts, p, rnd)
              c2 == FHE_rem(c1, p, Handle(c1, p), 6)
              diceZeroToFive == Handle(c2, p)
              c3 == FHE_asEuint32(c2, p, 1)
              c4 == FHE_add(c3, p, diceZeroToFive, Handle(c3, p))
              diceValue == Handle(c4, p)
              c5 == FHE_asEuint32(c4, p, 0)
              c6 == FHE_asEuint32(c5, p, 0)
          IN  /\ txCount < MaxTx
              /\ ciphertexts' = c6
              /\ rounds' = [rounds EXCEPT ![p] =
                              [diceResult |-> diceValue, lastGuess |-> rounds[p].lastGuess,
                               winFlag |-> Handle(c6, p), isActive |-> TRUE,
                               hasHistory |-> rounds[p].hasHistory]]
              /\ acl' = acl \cup startRoundGrants(p, diceValue, Handle(c5, p), Handle(c6, p))
              /\ txCount' = txCount + 1
              /\ last' = [op |-> "startRound", sender |-> p, status |-> "ok", ret |-> <<>>]
              /\ UNCHANGED <<encryptedBalances, joinedPlayers>>

startRound(p, rnd) ==
    LET status == startRoundStatus(p)
    IN  IF status # "ok" THEN Revert("startRound", p, status)
        ELSE
          LET c1 == FHE_randEuint32(ciphertexts, p, rnd)
              c2 == FHE_rem(c1, p, Handle(c1, p), 6)
              diceZeroToFive == Handle(c2, p)
              c3 == FHE_asEuint32(c2, p, 1)
              c4 == FHE_add(c3, p, diceZeroToFive, Handle(c3, p))
              diceValue == Handle(c4, p)
              c5 == FHE_asEuint32(c4, p, 0)
              c6 == FHE_asEuint32(c5, p, 0)
          IN  /\ txCount < MaxTx
              /\ ciphertexts' = c6
              /\ rounds' = [rounds EXCEPT ![p] =
                              [diceResult |-> diceValue, lastGuess |-> Handle(c5, p),
                               winFlag |-> Handle(c6, p), isActive |-> TRUE,
                               hasHistory |-> rounds[p].hasHistory]]
              /\ acl' = acl \cup startRoundGrants(p, diceValue, Handle(c5, p), Handle(c6, p))
              /\ txCount' = txCount + 1
              /\ last' = [op |-> "startRound", sender |-> p, status |-> "ok", ret |-> <<>>]
              /\ UNCHANGED <<encryptedBalances, joinedPlayers>>

(***************************************************************************)
(* submitGuess                                                             *)
(***************************************************************************)
\* Mutant: the proof is checked against the contract only, not the caller.
ProofValid_AnyUser(p, proof) == proof.contractAddress = This

\* FHE.fromExternal accepts the input only with a proof bound to the caller
\* and to this contract.
ProofValid(p, proof) == proof.user = p /\ proof.contractAddress = This

\* Mutant: the RoundNotActive check is missing.
submitGuessStatus_NoActiveCheck(p, proof) ==
    IF ~joinedPlayers[p] THEN "PlayerNotJoined"
    ELSE IF ~ProofValid(p, proof) THEN "InvalidProof"
    ELSE IF ~IsAllowed(rounds[p].diceResult, This) \/ ~IsAllowed(encryptedBalances[p], This)
         THEN "ACLNotAllowed"
    ELSE "ok"

submitGuessStatus(p, proof) ==
    IF ~joinedPlayers[p] THEN "PlayerNotJoined"
    ELSE IF ~rounds[p].isActive THEN "RoundNotActive"
    ELSE IF ~ProofValid(p, proof) THEN "InvalidProof"
    ELSE IF ~IsAllowed(rounds[p].diceResult, This) \/ ~IsAllowed(encryptedBalances[p], This)
         THEN "ACLNotAllowed"
    ELSE "ok"

\* Mutant: submitGuess forgets to let the participant decrypt the dice.
submitGuessGrants_NoDice(p, balance, dice, guess, win) ==
    { <<balance, This>>, <<balance, p>>, <<guess, This>>, <<win, This>>,
      <<guess, p>>, <<win, p>> }

\* The grants of submitGuess on the new balance and on the round handles.
\* Mutant: the contract is not granted on the stored guess (line 122 missing).
submitGuessGrants_NoGuessThis(p, balance, dice, guess, win) ==
    { <<balance, This>>, <<balance, p>>, <<win, This>>,
      <<dice, p>>, <<guess, p>>, <<win, p>> }

submitGuessGrants(p, balance, dice, guess, win) ==
    { <<balance, This>>, <<balance, p>>, <<guess, This>>, <<win, This>>,
      <<dice, p>>, <<guess, p>>, <<win, p>> }

\* Lines 104-110: the store after the outcome is computed; p's latest handle is
\* then winFlag, and playerGuess is the first handle produced.
resolveGuess(cts, p, dice, guess) ==
    LET c1 == FHE_fromExternal(cts, p, guess)
        playerGuess == Handle(c1, p)
        c2 == FHE_asEuint32(c1, p, 3)
        c3 == FHE_gt(c2, p, dice, Handle(c2, p))
        diceIsBig == Handle(c3, p)
        c4 == FHE_asEuint32(c3, p, 1)
        c5 == FHE_asEuint32(c4, p, 2)
        c6 == FHE_select(c5, p, diceIsBig, Handle(c4, p), Handle(c5, p))
        diceCategory == Handle(c6, p)
        c7 == FHE_eq(c6, p, playerGuess, diceCategory)
        guessMatches == Handle(c7, p)
        c8 == FHE_asEuint32(c7, p, 1)
        c9 == FHE_asEuint32(c8, p, 0)
    IN  FHE_select(c9, p, guessMatches, Handle(c8, p), Handle(c9, p))

\* Mutant: the reward is added whatever the win flag.
addReward_Always(cts, p, balance, winFlag) ==
    LET c1 == FHE_asEuint64(cts, p, Plain(cts, winFlag))
        c2 == FHE_asEuint64(c1, p, LimbsOf(ROUND_REWARD, 8))
        c3 == FHE_mul(c2, p, Handle(c2, p), Handle(c2, p))
    IN  FHE_add(c3, p, balance, Handle(c2, p))

\* Mutant: the win flag itself, not the flag times ROUND_REWARD, is added.
addReward_AddsFlag(cts, p, balance, winFlag) ==
    LET c1 == FHE_asEuint64(cts, p, Plain(cts, winFlag))
        c2 == FHE_asEuint64(c1, p, LimbsOf(ROUND_REWARD, 8))
        c3 == FHE_mul(c2, p, Handle(c1, p), Handle(c2, p))
    IN  FHE_add(c3, p, balance, Handle(c1, p))

\* Lines 112-113: the store after the reward is added; p's latest handle is then
\* the new balance.
addReward(cts, p, balance, winFlag) ==
    LET c1 == FHE_asEuint64(cts, p, Plain(cts, winFlag))
        c2 == FHE_asEuint64(c1, p, LimbsOf(ROUND_REWARD, 8))
        c3 == FHE_mul(c2, p, Handle(c1, p), Handle(c2, p))
        reward == Handle(c3, p)
    IN  FHE_add(c3, p, balance, reward)

\* Mutant: the resolved round's dice handle is overwritten by the win flag.
submitGuess_RewritesDice(p, guess, proof) ==
    LET status == submitGuessStatus(p, proof)
    IN  IF status # "ok" THEN Revert("submitGuess", p, status)
        ELSE
          LET playerGuess == <<p, Len(ciphertexts[p]) + 1>>
              c1 == resolveGuess(ciphertexts, p, rounds[p].diceResult, guess)
              winFlag == Handle(c1, p)
              c2 == addReward(c1, p, encryptedBalances[p], winFlag)
              balance == Handle(c2, p)
          IN  /\ txCount < MaxTx
              /\ ciphertexts' = c2
              /\ encryptedBalances' = [encryptedBalances EXCEPT ![p] = balance]
              /\ rounds' = [rounds EXCEPT ![p] =
                              [diceResult |-> winFlag,
                               lastGuess |-> playerGuess, winFlag |-> winFlag,
                               isActive |-> FALSE, hasHistory |-> TRUE]]
              /\ acl' = acl \cup submitGuessGrants(p, balance, rounds[p].diceResult,
                                                   playerGuess, winFlag)
              /\ txCount' = txCount + 1
              /\ last' = [op |-> "submitGuess", sender |-> p, status |-> "ok", ret |-> <<>>]
              /\ UNCHANGED joinedPlayers

submitGuess(p, guess, proof) ==
    LET status == submitGuessStatus(p, proof)
    IN  IF status # "ok" THEN Revert("submitGuess", p, status)
        ELSE
          LET playerGuess == <<p, Len(ciphertexts[p]) + 1>>
              c1 == resolveGuess(ciphertexts, p, rounds[p].diceResult, guess)
              winFlag == Handle(c1, p)
              c2 == addReward(c1, p, encryptedBalances[p], winFlag)
              balance == Handle(c2, p)
          IN  /\ txCount < MaxTx
              /\ ciphertexts' = c2
              /\ encryptedBalances' = [encryptedBalances EXCEPT ![p] = balance]
              /\ rounds' = [rounds EXCEPT ![p] =
                              [diceResult |-> rounds[p].diceResult,
                               lastGuess |-> playerGuess, winFlag |-> winFlag,
                               isActive |-> FALSE, hasHistory |-> TRUE]]
              /\ acl' = acl \cup submitGuessGrants(p, balance, rounds[p].diceResult,
                                                   playerGuess, winFlag)
              /\ txCount' = txCount + 1
              /\ last' = [op |-> "submitGuess", sender |-> p, status |-> "ok", ret |-> <<>>]
              /\ UNCHANGED joinedPlayers

(***************************************************************************)
(* The ledger: any participant may call any operation at any time; the     *)
(* host executes the calls one at a time.                                  *)
(***************************************************************************)
Next ==
    \/ \E p \in Players, value \in Deposits :
           joinGame(p, value) /\ UNCHANGED client
    \/ \E p \in Players, rnd \in RandValues :
           startRound(p, rnd) /\ UNCHANGED client
    \/ \E p \in Players, guess \in Guesses, proof \in Proofs :
           submitGuess(p, guess, proof) /\ UNCHANGED client

Spec == Init /\ [][Next]_vars

\* The number of rounds that are Active.
ActiveRounds == Cardinality({ p \in Players : rounds[p].isActive })

\* A submitGuess of p with a proof of p's own that goes through.
ValidSubmitGuess(p) ==
    \E guess \in Guesses :
        /\ submitGuess(p, guess, [user |-> p, contractAddress |-> This])
        /\ last'.status = "ok"
        /\ UNCHANGED client

\* The ledger with room left, within MaxTx, to resolve every round that is
\* started: a deposit or a new round is only tried while the transactions
\* done and the Active rounds together stay below the bound.
NextLive ==
    \/ \E p \in Players, value \in Deposits :
           /\ txCount + ActiveRounds < MaxTx
           /\ joinGame(p, value) /\ UNCHANGED client
    \/ \E p \in Players, rnd \in RandValues :
           /\ txCount + ActiveRounds + 1 < MaxTx
           /\ startRound(p, rnd) /\ UNCHANGED client
    \/ \E p \in Players, guess \in Guesses, proof \in Proofs :
           submitGuess(p, guess, proof) /\ UNCHANGED client

\* The state in which ValidSubmitGuess(p) can happen: the checks of lines
\* 99-104 pass for p's own proof and a transaction is left within MaxTx.
CanSubmit(p) ==
    /\ txCount < MaxTx
    /\ submitGuessStatus(p, [user |-> p, contractAddress |-> This]) = "ok"

\* Weak fairness of ValidSubmitGuess(p), WF_vars(ValidSubmitGuess(p)), with
\* its enabling condition written out as CanSubmit(p): a participant whose
\* round stays open sends a guess with a valid proof sooner or later.
FairSubmitGuess(p) ==
    \/ []<>(~CanSubmit(p))
    \/ []<><<ValidSubmitGuess(p)>>_vars

SpecLive ==
    Init /\ [][NextLive]_vars /\ \A p \in Players : FairSubmitGuess(p)

\* The ledger under the wide set of random values: each participant deposits
\* one point's worth and guesses Big with a proof of their own.
NextDice ==
    \/ \E p \in Players : joinGame(p, DepositOnePoint) /\ UNCHANGED client
    \/ \E p \in Players, rnd \in DiceSeeds : startRound(p, rnd) /\ UNCHANGED client
    \/ \E p \in Players :
           /\ submitGuess(p, <<1,0,0,0>>, [user |-> p, contractAddress |-> This])
           /\ UNCHANGED client

SpecDice == Init /\ [][NextDice]_vars

(***************************************************************************)
(* The clients of the wallet: the Client Authorization Gateway.  The web   *)
(* app keeps the handles it last read from the view getters (readData),    *)
(* the decrypted snapshot it shows (decryptedData) and a status message;   *)
(* handleDecrypt runs in four steps, one before each await.  The task      *)
(* decrypt-round of the command line reads three handles, one contract     *)
(* call after the other, and then asks for their cleartexts.               *)
(***************************************************************************)
\* getPlayerBalance / getDiceResult / getLastGuess / getLastOutcome of the wallet.
getHandle(f) ==
    IF f = "balance" THEN encryptedBalances[Wallet]
    ELSE IF f = "dice" THEN rounds[Wallet].diceResult
    ELSE IF f = "guess" THEN rounds[Wallet].lastGuess
    ELSE rounds[Wallet].winFlag

\* refreshAllReads: the reads of the web app are fetched again (refetchBalance,
\* refetchDice, refetchGuess, refetchOutcome), here from one block.
refreshAllReads ==
    /\ readData' = [f \in FieldNames |-> getHandle(f)]
    /\ UNCHANGED <<ledger, txCount, last, decryptedData, statusMessage, call, task>>

Range(seq) == { seq[i] : i \in 1..Len(seq) }

\* The handles that are read and are not ethers.ZeroHash, in the order
\* balance, dice, guess, outcome.
FilterHandles(data) ==
    SelectSeq([i \in 1..Len(Fields) |-> data[Fields[i]]],
              LAMBDA h : h # Undefined /\ h # NoHandle)

\* The relayer decrypts for a user only handles on which the user and the
\* contract hold a grant.
Authorized(handles, user) ==
    \A h \in Range(handles) : IsAllowed(h, user) /\ IsAllowed(h, This)

\* The relayer's answer: the cleartext of every requested handle.
userDecrypt(handles) == [h \in Range(handles) |-> Plain(ciphertexts, h)]

\* The bits of w, lowest first.
BitsOf(w) == [i \in 1..(8 * Len(w)) |-> (w[((i - 1) \div 8) + 1] \div (2 ^ ((i - 1) % 8))) % 2]

\* The position of the highest set bit of w (0 for zero).
BitLength(w) ==
    IF IsZeroW(w) THEN 0
    ELSE CHOOSE n \in 1..(8 * Len(w)) :
            BitsOf(w)[n] = 1 /\ \A m \in (n + 1)..(8 * Len(w)) : BitsOf(w)[m] = 0

\* Number(bigint): the nearest IEEE-754 double (53 bits of significand, ties
\* to even), as an integer of 9 limbs.
Number(w) ==
    LET n == BitLength(w)
        shift == n - 53
    IN  IF n <= 53 THEN ResizeW(w, 9)
        ELSE LET low == (w[1] + w[2] * Base) % (2 ^ shift)
                 cleared == (w[1] + w[2] * Base) - low
                 floorW == [i \in 1..9 |->
                               IF i = 1 THEN cleared % Base
                               ELSE IF i = 2 THEN cleared \div Base
                               ELSE IF i <= Len(w) THEN w[i] ELSE 0]
                 odd == BitsOf(w)[shift + 1] = 1
                 up == low > 2 ^ (shift - 1) \/ (low = 2 ^ (shift - 1) /\ odd)
             IN  IF up THEN AddW(floorW, LimbsOf(2 ^ shift, 9)) ELSE floorW

\* One field of setDecryptedData: `data && result[data] ? Number(result[data]) : null`.
SnapshotField(data, result, f) ==
    IF data[f] # Undefined /\ data[f] \in DOMAIN result /\ ~IsZeroW(result[data[f]])
    THEN Number(result[data[f]])
    ELSE Null

\* The address of a wallet that is not connected.
NoAddress == ""

\* Mutant: the Decrypt button stays enabled while a decryption is in progress.
DecryptButtonEnabled_Always == TRUE

\* The Decrypt button: disabled={!isConnected || actions.decrypt}, for a
\* connected wallet.
DecryptButtonEnabled == call.pc = "idle"

\* handleDecrypt up to its first await: the three early returns, then the
\* keypair and the EIP-712 record.  The button is disabled while a decryption
\* is in progress.
handleDecrypt(instance, address) ==
    /\ DecryptButtonEnabled
    /\ UNCHANGED <<ledger, txCount, last, readData, decryptedData, task>>
    /\ IF ~instance
       THEN /\ statusMessage' = "Encryption service is not ready yet."
            /\ call' = IdleCall
       ELSE IF address = NoAddress
       THEN /\ statusMessage' = "Connect your wallet first."
            /\ call' = IdleCall
       ELSE IF FilterHandles(readData) = <<>>
       THEN /\ statusMessage' = "No encrypted data is available yet."
            /\ call' = IdleCall
       ELSE /\ statusMessage' = "Requesting secure decryption..."
            /\ call' = [pc |-> "signer", data |-> readData,
                        handles |-> FilterHandles(readData),
                        keypair |-> TRUE, signature |-> FALSE, request |-> <<>>]

\* Mutant: a failed decryption also clears the decrypted snapshot.
Failed_ClearsSnapshot(message) ==
    /\ statusMessage' = message
    /\ call' = IdleCall
    /\ decryptedData' = [f \in FieldNames |-> Null]

\* The catch and finally blocks: only the status message changes.
Failed(message) ==
    /\ statusMessage' = message
    /\ call' = IdleCall
    /\ UNCHANGED decryptedData

\* signerPromise resolves; with a signer the wallet is asked to sign.
handleDecrypt_signer(signer) ==
    /\ call.pc = "signer"
    /\ UNCHANGED <<ledger, txCount, last, readData, task>>
    /\ IF ~signer THEN Failed("Decryption failed: Signer unavailable.")
       ELSE /\ call' = [call EXCEPT !.pc = "signature", !.signature = TRUE]
            /\ UNCHANGED <<statusMessage, decryptedData>>

\* signTypedData returns or is rejected; with a signature the request goes to
\* the relayer.
handleDecrypt_signature(signed) ==
    /\ call.pc = "signature"
    /\ UNCHANGED <<ledger, txCount, last, readData, task>>
    /\ IF ~signed THEN Failed("Decryption failed: user rejected the request")
       ELSE /\ call' = [call EXCEPT !.pc = "relayer", !.request = call.handles]
            /\ UNCHANGED <<statusMessage, decryptedData>>

\* userDecrypt returns or throws; the result replaces the whole snapshot.
handleDecrypt_result(relayerUp) ==
    /\ call.pc = "relayer"
    /\ UNCHANGED <<ledger, txCount, last, readData, task>>
    /\ IF ~relayerUp \/ ~Authorized(call.request, Wallet)
       THEN Failed("Decryption failed: relayer error")
       ELSE /\ decryptedData' =
                  [f \in FieldNames |->
                      SnapshotField(call.data, userDecrypt(call.request), f)]
            /\ statusMessage' = "Decrypted! Review your private stats below."
            /\ call' = IdleCall

\* task:decrypt-round, first read: getDiceResult.
taskDecryptRound_dice ==
    /\ task.pc = "idle"
    /\ task' = [pc |-> "guess", dice |-> getHandle("dice"), guess |-> Undefined,
                outcome |-> Undefined, requested |-> <<>>, log |-> ""]
    /\ UNCHANGED <<ledger, txCount, last, readData, decryptedData, statusMessage, call>>

\* Second read: getLastGuess.
taskDecryptRound_guess ==
    /\ task.pc = "guess"
    /\ task' = [task EXCEPT !.pc = "outcome", !.guess = getHandle("guess")]
    /\ UNCHANGED <<ledger, txCount, last, readData, decryptedData, statusMessage, call>>

\* Third read, getLastOutcome, and the test for an empty history; otherwise
\* the dice handle is sent for decryption.
taskDecryptRound_outcome ==
    /\ task.pc = "outcome"
    /\ IF task.dice = NoHandle /\ task.guess = NoHandle /\ getHandle("outcome") = NoHandle
       THEN task' = [task EXCEPT !.pc = "idle", !.outcome = getHandle("outcome"),
                                 !.log = "No round history available."]
       ELSE task' = [task EXCEPT !.pc = "decryptDice", !.outcome = getHandle("outcome"),
                                 !.requested = <<task.dice>>]
    /\ UNCHANGED <<ledger, txCount, last, readData, decryptedData, statusMessage, call>>

\* A userDecryptEuint of the task returns: a refusal ends the task, otherwise
\* the next handle is sent or the three cleartexts are printed.
taskDecryptRound_decrypt ==
    /\ task.pc \in {"decryptDice", "decryptGuess", "decryptOutcome"}
    /\ IF ~Authorized(<<task.requested[Len(task.requested)]>>, Wallet)
       THEN task' = [task EXCEPT !.pc = "idle", !.log = "error"]
       ELSE IF task.pc = "decryptDice"
       THEN task' = [task EXCEPT !.pc = "decryptGuess",
                                 !.requested = Append(@, task.guess)]
       ELSE IF task.pc = "decryptGuess"
       THEN task' = [task EXCEPT !.pc = "decryptOutcome",
                                 !.requested = Append(@, task.outcome)]
       ELSE task' = [task EXCEPT !.pc = "idle", !.log = "Dice | Guess | Outcome"]
    /\ UNCHANGED <<ledger, txCount, last, readData, decryptedData, statusMessage, call>>

\* The deposits, random values and guesses of the wallet's own calls: one
\* point or 2^64 - 1000 points, dice 3 or 6, Big or Small.
WalletDeposits == { DepositOnePoint, DepositNearMax }

WalletRandValues == { <<254,255,255,255>>, <<5,0,0,0>> }

WalletGuesses == { <<1,0,0,0>>, <<2,0,0,0>> }

\* The calls of the wallet to the ledger, at most MaxWalletTx of them
\* successful.
NextWallet ==
    /\ txCount < MaxWalletTx
    /\ \/ \E value \in WalletDeposits : joinGame(Wallet, value) /\ UNCHANGED client
       \/ \E rnd \in WalletRandValues : startRound(Wallet, rnd) /\ UNCHANGED client
       \/ \E guess \in WalletGuesses :
              /\ submitGuess(Wallet, guess, [user |-> Wallet, contractAddress |-> This])
              /\ UNCHANGED client

\* The wallet calls the ledger while the web app reads and decrypts.
NextClient ==
    \/ NextWallet
    \/ refreshAllReads
    \/ \E instance \in BOOLEAN : handleDecrypt(instance, Wallet)
    \/ \E signer \in BOOLEAN : handleDecrypt_signer(signer)
    \/ \E signed \in BOOLEAN : handleDecrypt_signature(signed)
    \/ \E relayerUp \in BOOLEAN : handleDecrypt_result(relayerUp)

SpecClient == Init /\ [][NextClient]_vars

\* The wallet calls the ledger while the task decrypt-round runs.
NextTask ==
    \/ NextWallet
    \/ taskDecryptRound_dice
    \/ taskDecryptRound_guess
    \/ taskDecryptRound_outcome
    \/ taskDecryptRound_decrypt

SpecTask == Init /\ [][NextTask]_vars

\* The wallet calls the ledger (one point deposited, dice 6) while the web app
\* and the task both decrypt.
NextGateway ==
    \/ /\ txCount < MaxWalletTx
       /\ \/ joinGame(Wallet, DepositOnePoint) /\ UNCHANGED client
          \/ startRound(Wallet, <<5,0,0,0>>) /\ UNCHANGED client
          \/ \E guess \in WalletGuesses :
                 /\ submitGuess(Wallet, guess, [user |-> Wallet, contractAddress |-> This])
                 /\ UNCHANGED client
    \/ refreshAllReads
    \/ \E instance \in BOOLEAN : handleDecrypt(instance, Wallet)
    \/ \E signer \in BOOLEAN : handleDecrypt_signer(signer)
    \/ \E signed \in BOOLEAN : handleDecrypt_signature(signed)
    \/ \E relayerUp \in BOOLEAN : handleDecrypt_result(relayerUp)
    \/ taskDecryptRound_dice
    \/ taskDecryptRound_guess
    \/ taskDecryptRound_outcome
    \/ taskDecryptRound_decrypt

SpecGateway == Init /\ [][NextGateway]_vars

(***************************************************************************)
(* Vocabulary of the properties.                                           *)
(***************************************************************************)
Called(op, p, status) == last.op = op /\ last.sender = p /\ last.status = status

Word32(k) == LimbsOf(k, 4)

Word64(k) == LimbsOf(k, 8)

\* The principals holding a grant on handle h.
Grantees(h) == { a \in Principals : IsAllowed(h, a) }

\* The dice values of the Big category (4..6); the others of 1..6 are Small.
BigDice == { Word32(4), Word32(5), Word32(6) }

SmallDice == { Word32(1), Word32(2), Word32(3) }

\* The win flag the outcome rule asks for, given the dice and the guess.
ExpectedWinFlag(dice, guess) ==
    IF (dice \in BigDice /\ guess = Word32(1)) \/ (dice \in SmallDice /\ guess = Word32(2))
    THEN Word32(1) ELSE Word32(0)

(***************************************************************************)
(* C1: while a participant's round is active, the only principal holding a *)
(* decrypt grant on its current diceResult handle is the ledger; the       *)
(* participant holds none, in the first round and in later ones, whatever  *)
(* joinGame calls are interleaved.                                         *)
(***************************************************************************)
C1_DiceHiddenWhileActive ==
    \A p \in Players :
        rounds[p].isActive => Grantees(rounds[p].diceResult) = {This}

\* C1 witness: a later round is active, started after a resolved one.
C1_Witness ==
    \E p \in Players : rounds[p].isActive /\ rounds[p].hasHistory

(***************************************************************************)
(* C2: right after a successful submitGuess of p, p's round is inactive    *)
(* with history, and p holds a grant on the round's diceResult, lastGuess  *)
(* and winFlag handles and on the new balance handle.                      *)
(***************************************************************************)
C2_ResolvedAndGranted ==
    \A p \in Players :
        Called("submitGuess", p, "ok") =>
            /\ ~rounds[p].isActive
            /\ rounds[p].hasHistory
            /\ IsAllowed(rounds[p].diceResult, p)
            /\ IsAllowed(rounds[p].lastGuess, p)
            /\ IsAllowed(rounds[p].winFlag, p)
            /\ IsAllowed(encryptedBalances[p], p)

\* C2 witness: a submitGuess has just succeeded.
C2_Witness ==
    \E p \in Players : Called("submitGuess", p, "ok")

(***************************************************************************)
(* C3: for every dice value and every 32-bit guess a successful            *)
(* submitGuess is given, the stored winFlag decrypts to 1 iff (dice > 3    *)
(* and guess = 1) or (dice <= 3 and guess = 2), and to 0 otherwise.        *)
(***************************************************************************)
C3_OutcomeRule ==
    [][ (last'.op = "submitGuess" /\ last'.status = "ok") =>
          \A guess \in Guesses, proof \in Proofs :
              submitGuess(last'.sender, guess, proof) =>
                  Plain(ciphertexts', rounds'[last'.sender].winFlag)
                    = ExpectedWinFlag(Decrypt(rounds[last'.sender].diceResult), guess)
      ]_vars

\* C3 witness: a guess other than 1 and 2 (2^32 - 1) was resolved, as a loss.
C3_Witness ==
    \E p \in Players :
        /\ Called("submitGuess", p, "ok")
        /\ Decrypt(rounds[p].lastGuess) = <<255,255,255,255>>
        /\ Decrypt(rounds[p].winFlag) = Word32(0)

(***************************************************************************)
(* C4: every successful submitGuess leaves a balance that decrypts to the  *)
(* balance before the call plus 1000 when the resulting win flag is 1, and *)
(* to the balance before the call when it is 0.  The balance is a 64-bit   *)
(* value and the addition wraps: the sum is taken modulo 2^64.             *)
(***************************************************************************)
\* The reward a win flag stands for.
RewardFor(win) == IF win = Word32(1) THEN Word64(ROUND_REWARD) ELSE Word64(0)

\* C4 as claimed: the balance after a win is the exact sum balance + 1000, for
\* every 64-bit balance.
C4_ExactReward ==
    [][ (last'.op = "submitGuess" /\ last'.status = "ok") =>
          LET p == last'.sender
              pre == Decrypt(encryptedBalances[p])
              post == Plain(ciphertexts', encryptedBalances'[p])
              win == Plain(ciphertexts', rounds'[p].winFlag)
          IN  ResizeW(post, 9) = AddFullW(pre, RewardFor(win))
      ]_vars

\* C4 amended: the balance after the call is the balance before it plus the
\* reward of the win flag (1000 or 0), modulo 2^64.
C4_RewardModulo ==
    [][ (last'.op = "submitGuess" /\ last'.status = "ok") =>
          LET p == last'.sender
              pre == Decrypt(encryptedBalances[p])
              post == Plain(ciphertexts', encryptedBalances'[p])
              win == Plain(ciphertexts', rounds'[p].winFlag)
          IN  post = AddW(pre, RewardFor(win))
      ]_vars

\* C4 witness: a win on a balance of 2^64 - 1000 has wrapped the balance to 0.
C4_Witness ==
    \E p \in Players :
        /\ Called("submitGuess", p, "ok")
        /\ Decrypt(rounds[p].winFlag) = Word32(1)
        /\ Decrypt(encryptedBalances[p]) = Word64(0)

(***************************************************************************)
(* C5: for every deposit d > 0 with 1 <= floor(d * 10000 / 1 ether) < 2^64 *)
(* and every balance before the call (zero on a first join), joinGame      *)
(* succeeds, returns mintedPoints = floor(d * 10000 / 1 ether), and the    *)
(* balance after the call decrypts to the balance before it plus that      *)
(* amount modulo 2^64.                                                     *)
(***************************************************************************)
\* floor(d * 10000 / 1 ether) in exact arithmetic (34 limbs), per deposit.
ExactPoints ==
    [value \in Deposits |-> DivEtherW(MulSmallFullW(value, POINTS_PER_ETH))]

FitsUint64(w) == \A i \in 9..Len(w) : w[i] = 0

\* The balance a participant has before a call (zero before the first join).
BalanceOf(p) ==
    IF encryptedBalances[p] = NoHandle THEN Word64(0) ELSE Decrypt(encryptedBalances[p])

\* C5 as claimed: every deposit d > 0 with floor(d * 10000 / 1 ether) >= 1
\* succeeds, returns that amount and adds it exactly.
C5_ExactMint ==
    [][ last'.op = "joinGame" =>
          \A value \in Deposits :
              ( /\ joinGame(last'.sender, value)
                /\ ~IsZeroW(value)
                /\ ~IsZeroW(ExactPoints[value]) ) =>
                  /\ last'.status = "ok"
                  /\ ResizeW(last'.ret, 34) = ExactPoints[value]
                  /\ ResizeW(Plain(ciphertexts', encryptedBalances'[last'.sender]), 35)
                       = AddFullW(ResizeW(BalanceOf(last'.sender), 34), ExactPoints[value])
      ]_vars

\* C5 amended: every deposit minting 1 .. 2^64 - 1 points succeeds, returns
\* that amount and adds it to the balance modulo 2^64.
C5_MintModulo ==
    [][ last'.op = "joinGame" =>
          \A value \in Deposits :
              ( /\ joinGame(last'.sender, value)
                /\ ~IsZeroW(value)
                /\ ~IsZeroW(ExactPoints[value])
                /\ FitsUint64(ExactPoints[value]) ) =>
                  /\ last'.status = "ok"
                  /\ last'.ret = ResizeW(ExactPoints[value], 8)
                  /\ Plain(ciphertexts', encryptedBalances'[last'.sender])
                       = AddW(BalanceOf(last'.sender), ResizeW(ExactPoints[value], 8))
      ]_vars

\* C5 witness: a join on top of an earlier balance, 1 point added to 2^64 - 1000.
C5_Witness ==
    \E p \in Players :
        /\ Called("joinGame", p, "ok")
        /\ last.ret = Word64(1)
        /\ Decrypt(encryptedBalances[p]) = <<25,252,255,255,255,255,255,255>>

(***************************************************************************)
(* C6: joinGame with a deposit of 0, or with a deposit whose points round  *)
(* down to 0, fails with InvalidDeposit and leaves the balance handles,    *)
(* the joined flags, the rounds and every grant as they were, whether or   *)
(* not the participant had joined before.                                  *)
(***************************************************************************)
C6_InvalidDepositNoEffect ==
    [][ last'.op = "joinGame" =>
          \A value \in Deposits :
              ( /\ IsZeroW(value) \/ IsZeroW(ExactPoints[value])
                /\ joinGame(last'.sender, value) ) =>
                  /\ last'.status = "InvalidDeposit"
                  /\ UNCHANGED ledger
      ]_vars

\* C6 witness: the call failed for a participant who had joined before.
C6_Witness ==
    \E p \in Players : Called("joinGame", p, "InvalidDeposit") /\ joinedPlayers[p]

(***************************************************************************)
(* C7: startRound of a participant whose round is active fails with        *)
(* RoundAlreadyActive and changes nothing; the diceResult handle stays,    *)
(* so the dice of an unresolved round cannot be rolled again.              *)
(***************************************************************************)
C7_NoReroll ==
    [][ (last'.op = "startRound" /\ rounds[last'.sender].isActive) =>
          \A rnd \in RandValues :
              startRound(last'.sender, rnd) =>
                  /\ last'.status = "RoundAlreadyActive"
                  /\ rounds'[last'.sender].diceResult = rounds[last'.sender].diceResult
                  /\ UNCHANGED ledger
      ]_vars

\* C7 witness: a startRound was refused on an active round.
C7_Witness ==
    \E p \in Players : Called("startRound", p, "RoundAlreadyActive") /\ rounds[p].isActive

(***************************************************************************)
(* C8: submitGuess of a joined participant whose round is not active       *)
(* (never started, or resolved) fails with RoundNotActive and changes      *)
(* nothing; so a submitGuess succeeds only on an active round and leaves   *)
(* it inactive: a started round is resolved and rewarded at most once.     *)
(***************************************************************************)
C8_ResolveOnce ==
    [][ last'.op = "submitGuess" =>
          /\ (joinedPlayers[last'.sender] /\ ~rounds[last'.sender].isActive) =>
                \A guess \in Guesses, proof \in Proofs :
                    submitGuess(last'.sender, guess, proof) =>
                        /\ last'.status = "RoundNotActive"
                        /\ UNCHANGED ledger
          /\ last'.status = "ok" =>
                /\ rounds[last'.sender].isActive
                /\ ~rounds'[last'.sender].isActive
      ]_vars

\* C8 witness: the call failed on a round that was already resolved.
C8_Witness ==
    \E p \in Players : Called("submitGuess", p, "RoundNotActive") /\ rounds[p].hasHistory

(***************************************************************************)
(* C9: startRound and submitGuess of a participant who never joined fail   *)
(* with PlayerNotJoined and change nothing; a joinGame that failed does    *)
(* not make the caller joined.                                             *)
(***************************************************************************)
C9_NotJoined ==
    [][ /\ (last'.op = "startRound" /\ ~joinedPlayers[last'.sender]) =>
              \A rnd \in RandValues :
                  startRound(last'.sender, rnd) =>
                      last'.status = "PlayerNotJoined" /\ UNCHANGED ledger
        /\ (last'.op = "submitGuess" /\ ~joinedPlayers[last'.sender]) =>
              \A guess \in Guesses, proof \in Proofs :
                  submitGuess(last'.sender, guess, proof) =>
                      last'.status = "PlayerNotJoined" /\ UNCHANGED ledger
        /\ (last'.op = "joinGame" /\ last'.status # "ok") =>
              joinedPlayers' = joinedPlayers
      ]_vars

\* C9 witness: a participant who is not joined was refused, after another call
\* had succeeded.
C9_Witness ==
    \E p \in Players :
        /\ ~joinedPlayers[p]
        /\ last.sender = p
        /\ last.op \in {"startRound", "submitGuess"}
        /\ last.status = "PlayerNotJoined"
        /\ txCount > 0

(***************************************************************************)
(* C10: a submitGuess whose input proof is not bound to the caller and to  *)
(* this contract fails and changes nothing (balance handle, lastGuess,     *)
(* winFlag, isActive, hasHistory and every grant stay); when it fails on   *)
(* the proof the round is still active and the same participant's          *)
(* submitGuess with a valid proof is accepted.                             *)
(***************************************************************************)
ValidProofOf(p) == [user |-> p, contractAddress |-> This]

C10_InvalidProofAtomic ==
    [][ last'.op = "submitGuess" =>
          /\ \A guess \in Guesses, proof \in Proofs :
                (proof # ValidProofOf(last'.sender)
                   /\ submitGuess(last'.sender, guess, proof)) =>
                    /\ last'.status # "ok"
                    /\ UNCHANGED ledger
          /\ \A p \in Players :
                (last'.sender = p /\ last'.status = "InvalidProof") =>
                    /\ rounds'[p].isActive
                    /\ (submitGuessStatus(p, ValidProofOf(p)))' = "ok"
      ]_vars

\* C10 witness: a submitGuess was refused for its proof on an active round.
C10_Witness ==
    \E p \in Players : Called("submitGuess", p, "InvalidProof") /\ rounds[p].isActive

(***************************************************************************)
(* C11: in every reachable state and for every random value, a             *)
(* participant's diceResult, once set by startRound, decrypts to a value   *)
(* in 1..6.                                                                *)
(***************************************************************************)
DiceFaces == { Word32(k) : k \in 1..6 }

C11_DiceInRange ==
    \A p \in Players :
        rounds[p].diceResult # NoHandle => Decrypt(rounds[p].diceResult) \in DiceFaces

\* C11 witness: one participant's dice is the lowest face and another's the
\* highest.
C11_Witness ==
    \E p, q \in Players :
        /\ rounds[p].diceResult # NoHandle /\ rounds[q].diceResult # NoHandle
        /\ Decrypt(rounds[p].diceResult) = Word32(1)
        /\ Decrypt(rounds[q].diceResult) = Word32(6)

(***************************************************************************)
(* C12: in every reachable state a participant's stored lastGuess decrypts *)
(* to 0, 1 or 2; it decrypts to 0 only in the pre-guess reset state (after *)
(* startRound and before submitGuess), and after a successful submitGuess  *)
(* it is 1 or 2.                                                           *)
(***************************************************************************)
C12_GuessDomain ==
    \A p \in Players :
        rounds[p].lastGuess # NoHandle =>
            /\ Decrypt(rounds[p].lastGuess) \in { Word32(0), Word32(1), Word32(2) }
            /\ Decrypt(rounds[p].lastGuess) = Word32(0) => rounds[p].isActive
            /\ ~rounds[p].isActive =>
                   Decrypt(rounds[p].lastGuess) \in { Word32(1), Word32(2) }

(***************************************************************************)
(* C13: in every reachable state a participant's stored winFlag, once set, *)
(* decrypts to 0 or 1, and it decrypts to 0 throughout every Active round. *)
(***************************************************************************)
C13_WinFlagDomain ==
    \A p \in Players :
        rounds[p].winFlag # NoHandle =>
            /\ Decrypt(rounds[p].winFlag) \in { Word32(0), Word32(1) }
            /\ rounds[p].isActive => Decrypt(rounds[p].winFlag) = Word32(0)

\* C13 witness: a round is Active after a round that was won (one point
\* deposited and one reward), and its win flag is back to zero.
C13_Witness ==
    \E p \in Players :
        /\ rounds[p].isActive /\ rounds[p].hasHistory
        /\ BalanceOf(p) = Word64(1001)
        /\ Decrypt(rounds[p].winFlag) = Word32(0)

(***************************************************************************)
(* C14: per participant the round follows NoRound -> Active -> Resolved -> *)
(* Active -> ...: isActive becomes true only by a successful startRound    *)
(* and false only by a successful submitGuess of that participant; a       *)
(* successful startRound starts from a round that is not Active and leaves *)
(* it Active, a successful submitGuess starts from an Active round and     *)
(* leaves it not Active, so the two strictly alternate, beginning with     *)
(* startRound (no round is Active after deployment).                       *)
(***************************************************************************)
SucceededBy(op, p) == last'.op = op /\ last'.sender = p /\ last'.status = "ok"

C14_RoundLifecycle ==
    [][ \A p \in Players :
          /\ (~rounds[p].isActive /\ rounds'[p].isActive) => SucceededBy("startRound", p)
          /\ (rounds[p].isActive /\ ~rounds'[p].isActive) => SucceededBy("submitGuess", p)
          /\ SucceededBy("startRound", p) => ~rounds[p].isActive /\ rounds'[p].isActive
          /\ SucceededBy("submitGuess", p) => rounds[p].isActive /\ ~rounds'[p].isActive
      ]_vars

\* C14 witness: a participant's second startRound has succeeded, after a
\* resolved round.
C14_Witness ==
    \E p \in Players :
        Called("startRound", p, "ok") /\ rounds[p].hasHistory /\ rounds[p].isActive

(***************************************************************************)
(* C15: grants are append-only.  No step removes a principal from a        *)
(* handle's access list; in particular, after a new startRound overwrites  *)
(* the record of a resolved round, the participant still holds the grants  *)
(* on that round's diceResult, lastGuess and winFlag handles and on every  *)
(* earlier balance handle granted to them.                                 *)
(***************************************************************************)
C15_GrantsAppendOnly ==
    [][ /\ acl \subseteq acl'
        /\ \A p \in Players :
              (SucceededBy("startRound", p) /\ rounds[p].hasHistory) =>
                  /\ rounds'[p].diceResult # rounds[p].diceResult
                  /\ <<rounds[p].diceResult, p>> \in acl'
                  /\ <<rounds[p].lastGuess, p>> \in acl'
                  /\ <<rounds[p].winFlag, p>> \in acl'
      ]_vars

\* The handles the ledger currently stores for participant p.
StoredHandles(p) ==
    { encryptedBalances[p], rounds[p].diceResult, rounds[p].lastGuess, rounds[p].winFlag }

\* C15 witness: in a new round after a resolved one, the participant holds
\* grants on at least four handles the ledger no longer stores (the first
\* balance and the previous round's dice, guess and win flag).
C15_Witness ==
    \E p \in Players :
        /\ rounds[p].isActive /\ rounds[p].hasHistory
        /\ Cardinality({ g \in acl : g[2] = p /\ g[1] \notin StoredHandles(p) }) >= 4

(***************************************************************************)
(* C16: in every reachable state, every non-sentinel handle the ledger     *)
(* stores (each participant's balance, diceResult, lastGuess and winFlag)  *)
(* has the ledger itself in its access list.                               *)
(* No call is refused because the ledger lacks a grant on a stored handle.  *)
(***************************************************************************)
C16_LedgerGranted ==
    /\ \A p \in Players :
          \A h \in StoredHandles(p) : h # NoHandle => IsAllowed(h, This)
    /\ last.status # "ACLNotAllowed"

\* C16 witness: a participant's four stored handles are all set and the
\* record is that of a resolved round.
C16_Witness ==
    \E p \in Players :
        /\ NoHandle \notin StoredHandles(p)
        /\ rounds[p].hasHistory /\ ~rounds[p].isActive

(***************************************************************************)
(* C17: with several participants and any interleaving of their calls, the *)
(* access list of every handle stored for participant P (balance,          *)
(* diceResult, lastGuess, winFlag, superseded ones included) holds no      *)
(* principal other than the ledger and P.  The handles stored for P are    *)
(* those produced in P's own calls.                                        *)
(***************************************************************************)
C17_OnlyOwnerAndLedger ==
    /\ \A p \in Players :
          \A h \in StoredHandles(p) :
              h # NoHandle => h[1] = p /\ Grantees(h) \subseteq {This, p}
    /\ \A g \in acl : g[2] \in {This, g[1][1]}

\* C17 witness: one participant has a resolved round, with grants on its
\* handles, while another participant has joined.
C17_Witness ==
    \E p, q \in Players :
        /\ p # q /\ joinedPlayers[q] /\ rounds[p].hasHistory
        /\ Grantees(rounds[p].diceResult) = {This, p}
        /\ Grantees(encryptedBalances[q]) = {This, q}

(***************************************************************************)
(* C18: in every reachable state, for every participant with joined ==     *)
(* true, the current balance handle is non-sentinel and both the ledger    *)
(* and the participant hold a grant on it (after joinGame and after every  *)
(* submitGuess that replaces the handle).                                  *)
(***************************************************************************)
C18_JoinedBalanceGranted ==
    \A p \in Players :
        joinedPlayers[p] =>
            /\ encryptedBalances[p] # NoHandle
            /\ IsAllowed(encryptedBalances[p], This)
            /\ IsAllowed(encryptedBalances[p], p)

\* C18 witness: the balance handle was replaced by a submitGuess and then
\* by a further joinGame.
C18_Witness ==
    \E p \in Players :
        /\ joinedPlayers[p] /\ rounds[p].hasHistory
        /\ Called("joinGame", p, "ok")

(***************************************************************************)
(* C19: for every requested handle for which the relayer returns a         *)
(* cleartext (the value 0 included, e.g. the outcome 0 of a lost round),   *)
(* the client gateway stores exactly that value in the semantic field      *)
(* (balance, dice, guess, outcome) the handle was read for.                *)
(***************************************************************************)
Decrypted == "Decrypted! Review your private stats below."

C19_StoresReturnedValue ==
    [][ (call.pc = "relayer" /\ statusMessage' = Decrypted) =>
          \A f \in FieldNames :
              call.data[f] \in Range(call.request) =>
                  decryptedData'[f] = ResizeW(Plain(ciphertexts, call.data[f]), 9)
      ]_vars

(***************************************************************************)
(* C20: the client gateway never includes the all-zero sentinel handle (or *)
(* an unread, undefined handle) in a decryption request, and when no       *)
(* handle remains it reports that there is nothing to decrypt without      *)
(* generating a keypair, requesting a signature or calling the relayer.    *)
(* The gateway is the web app's handleDecrypt and the task decrypt-round.  *)
(***************************************************************************)
C20_NoSentinelRequested ==
    /\ \A h \in Range(call.handles) \cup Range(call.request) \cup Range(task.requested) :
          h # NoHandle /\ h # Undefined
    /\ statusMessage = "No encrypted data is available yet." =>
          ~call.keypair /\ ~call.signature /\ call.request = <<>>
    /\ task.log = "No round history available." => task.requested = <<>>

(***************************************************************************)
(* C21: a decryption request that fails (no signer, signature rejected,    *)
(* relayer error), is abandoned or short-circuits leaves all ledger state  *)
(* unchanged (joined flags, balance handles, round records, access lists)  *)
(* and is reported only as a client status message: the decrypted snapshot *)
(* stays as it was.  The ledger operations answer afterwards exactly as    *)
(* before.                                                                 *)
(***************************************************************************)
NotDecrypted ==
    { "Encryption service is not ready yet.", "Connect your wallet first.",
      "No encrypted data is available yet.", "Decryption failed: Signer unavailable.",
      "Decryption failed: user rejected the request", "Decryption failed: relayer error" }

C21_FailedDecryptNoLedgerEffect ==
    [][ (call' # call \/ statusMessage' # statusMessage \/ decryptedData' # decryptedData) =>
          /\ UNCHANGED <<ledger, txCount, last>>
          /\ \A value \in WalletDeposits :
                (joinGameStatus(Wallet, value))' = joinGameStatus(Wallet, value)
          /\ (startRoundStatus(Wallet))' = startRoundStatus(Wallet)
          /\ (submitGuessStatus(Wallet, ValidProofOf(Wallet)))'
                = submitGuessStatus(Wallet, ValidProofOf(Wallet))
          /\ statusMessage' \in NotDecrypted =>
                decryptedData' = decryptedData /\ call' = IdleCall
      ]_vars

\* C21 witness: a decryption was refused by the relayer (the dice of the
\* running round was requested) after an earlier one had filled the snapshot.
C21_Witness ==
    /\ statusMessage = "Decryption failed: relayer error"
    /\ rounds[Wallet].isActive
    /\ decryptedData["balance"] # Null

(***************************************************************************)
(* C22: two decryption requests for the same participant that are in       *)
(* flight at the same time are independent: the final decrypted snapshot   *)
(* held by the client does not depend on the order in which the two        *)
(* relayer responses arrive.  The web app never has two requests of its    *)
(* own in flight (a request starts only when none is in progress); a       *)
(* request of the web app and one of the task decrypt-round can be in      *)
(* flight together, and then the response to either leaves the other       *)
(* request and the result it will produce unchanged.                       *)
(***************************************************************************)
TaskDecrypting == task.pc \in {"decryptDice", "decryptGuess", "decryptOutcome"}

BothInFlight == call.pc = "relayer" /\ TaskDecrypting

\* The snapshot the web app holds once the relayer has answered its request.
WebResult ==
    IF Authorized(call.request, Wallet)
    THEN [f \in FieldNames |-> SnapshotField(call.data, userDecrypt(call.request), f)]
    ELSE decryptedData

\* The relayer's answer to the request of the task that is in flight.
TaskAnswer == Authorized(<<task.requested[Len(task.requested)]>>, Wallet)

C22_OrderInsensitive ==
    [][ /\ (call' # call /\ call'.pc = "signer") => call.pc = "idle"
        /\ (BothInFlight /\ task' # task) =>
              call' = call /\ decryptedData' = decryptedData /\ WebResult' = WebResult
        /\ (BothInFlight /\ call' # call) =>
              task' = task /\ TaskAnswer' = TaskAnswer
      ]_vars

\* C22 witness: a request of the web app and a request of the task are both
\* waiting for the relayer, for handles of a resolved round.
C22_Witness ==
    /\ BothInFlight
    /\ rounds[Wallet].hasHistory
    /\ Authorized(call.request, Wallet) /\ TaskAnswer

(***************************************************************************)
(* C23: a participant's joined flag is monotonic: once a joinGame has      *)
(* succeeded, hasJoined stays true after every later operation, including  *)
(* failed joins, startRound and submitGuess.                               *)
(***************************************************************************)
hasJoined(p) == joinedPlayers[p]

C23_JoinedMonotonic ==
    [][ \A p \in Players :
          /\ hasJoined(p) => hasJoined(p)'
          /\ (~hasJoined(p) /\ hasJoined(p)') => SucceededBy("joinGame", p)
      ]_vars

\* C23 witness: a participant with a resolved round behind them has just had
\* a deposit refused and is still joined.
C23_Witness ==
    \E p \in Players :
        /\ hasJoined(p) /\ rounds[p].hasHistory
        /\ Called("joinGame", p, "InvalidDeposit")

(***************************************************************************)
(* C24: the dice of a round is locked at startRound.  Between a successful *)
(* startRound and the next successful startRound of the same participant,  *)
(* no operation (joinGame, a failed startRound, a failed or successful     *)
(* submitGuess, any call of another participant) changes the diceResult    *)
(* handle or its plaintext; a successful submitGuess compares the guess    *)
(* against that plaintext and then grants the participant that handle.     *)
(***************************************************************************)
C24_DiceLocked ==
    [][ \A p \in Players :
          /\ rounds'[p].diceResult # rounds[p].diceResult => SucceededBy("startRound", p)
          /\ (rounds[p].diceResult # NoHandle /\ ~SucceededBy("startRound", p)) =>
                Plain(ciphertexts', rounds'[p].diceResult) = Decrypt(rounds[p].diceResult)
          /\ SucceededBy("submitGuess", p) =>
                /\ <<rounds'[p].diceResult, p>> \in acl'
                /\ Plain(ciphertexts', rounds'[p].winFlag)
                     = ExpectedWinFlag(Plain(ciphertexts', rounds'[p].diceResult),
                                       Plain(ciphertexts', rounds'[p].lastGuess))
      ]_vars

\* C24 witness: a round of a participant with two deposits of one point was
\* resolved, and the participant may now decrypt its dice, a 6.
C24_Witness ==
    \E p \in Players :
        /\ Called("submitGuess", p, "ok")
        /\ Decrypt(rounds[p].diceResult) = Word32(6)
        /\ IsAllowed(rounds[p].diceResult, p)
        /\ BalanceOf(p) \in { Word64(2), Word64(1002) }

(***************************************************************************)
(* C25: no round gets stuck.  Whenever a joined participant's round is     *)
(* Active, a submitGuess with a valid proof is enabled and succeeds, for   *)
(* any guess value; whenever it is not Active, a startRound is accepted;   *)
(* and under fairness of valid submitGuess calls every Active round        *)
(* eventually becomes Resolved.                                            *)
(***************************************************************************)
NeverStuck ==
    \A p \in Players :
        /\ rounds[p].isActive =>
              /\ joinedPlayers[p]
              /\ CanSubmit(p)
        /\ (joinedPlayers[p] /\ ~rounds[p].isActive) => startRoundStatus(p) = "ok"

C25_NoStuckRound ==
    /\ []NeverStuck
    /\ \A p \in Players :
          rounds[p].isActive ~> (~rounds[p].isActive /\ rounds[p].hasHistory)

\* C25 witness: a round was resolved by a guess that is neither 1 nor 2.
C25_Witness ==
    \E p \in Players :
        /\ Called("submitGuess", p, "ok")
        /\ ~rounds[p].isActive /\ rounds[p].hasHistory
        /\ Decrypt(rounds[p].lastGuess) = <<255,255,255,255>>

(***************************************************************************)
(* C26: after any sequence of operations a participant's decrypted balance *)
(* equals, modulo 2^64, the sum of the points minted by all of their       *)
(* successful joinGame calls plus 1000 times the number of their resolved  *)
(* rounds whose winFlag was 1.  Stated step by step: the balance starts at *)
(* zero (no handle), a successful joinGame adds the points it returns, a   *)
(* successful submitGuess adds 1000 (232 + 3 * 256) when its win flag is 1 *)
(* and nothing otherwise, and every other call, failed ones included,      *)
(* leaves the balance as it is.                                            *)
(***************************************************************************)
\* The step is a submitGuess of p that went through with a win flag of 1.
WonRound(p) ==
    /\ SucceededBy("submitGuess", p)
    /\ Plain(ciphertexts', rounds'[p].winFlag) = <<1,0,0,0>>

C26_BalanceIsSumOfMintsAndWins ==
    [][ \A p \in Players :
          /\ ~joinedPlayers[p] => encryptedBalances[p] = NoHandle
          /\ ~joinedPlayers'[p] => encryptedBalances'[p] = NoHandle
          /\ IF SucceededBy("joinGame", p)
                THEN BalanceOf(p)' = AddW(BalanceOf(p), last'.ret)
              ELSE IF WonRound(p)
                THEN BalanceOf(p)' = AddW(BalanceOf(p), <<232,3,0,0,0,0,0,0>>)
              ELSE BalanceOf(p)' = BalanceOf(p) ]_vars

\* C26 witness: deposits of 2^64 - 1000 points and of 1 point and a won
\* round leave a balance of 2^64 + 1 modulo 2^64, that is 1.
C26_Witness ==
    \E p \in Players :
        /\ Called("submitGuess", p, "ok")
        /\ Decrypt(rounds[p].winFlag) = Word32(1)
        /\ BalanceOf(p) = Word64(1)

(***************************************************************************)
(* C27: a successful joinGame changes only the caller's balance handle,    *)
(* its grants and the joined flag: the caller's round record (diceResult,  *)
(* lastGuess, winFlag, isActive, hasHistory) and the grants on those round *)
(* handles are unchanged, also when joinGame is called while a round is    *)
(* Active.                                                                 *)
(***************************************************************************)
\* The handles of p's round record.
RoundHandles(p) == { rounds[p].diceResult, rounds[p].lastGuess, rounds[p].winFlag }

C27_JoinGameFrame ==
    [][ \A p \in Players :
          SucceededBy("joinGame", p) =>
              /\ rounds'[p] = rounds[p]
              /\ \A h \in RoundHandles(p), a \in Principals :
                     (<<h, a>> \in acl') <=> (<<h, a>> \in acl)
              /\ \A h \in RoundHandles(p) :
                     h # NoHandle => Plain(ciphertexts', h) = Plain(ciphertexts, h)
              /\ \A g \in acl' \ acl : g[1] = encryptedBalances'[p]
              /\ acl \subseteq acl'
              /\ joinedPlayers'[p] ]_vars

\* C27 witness: a deposit went through while the caller's round was Active.
C27_Witness ==
    \E p \in Players :
        /\ Called("joinGame", p, "ok")
        /\ rounds[p].isActive
        /\ IsAllowed(rounds[p].diceResult, This)

(***************************************************************************)
(* C28: participants are isolated.  Any joinGame, startRound or            *)
(* submitGuess call by participant A, successful or failed, leaves         *)
(* participant B's joined flag, balance handle, round record and the       *)
(* access lists of B's handles unchanged, for every interleaving of A's    *)
(* and B's calls.                                                          *)
(***************************************************************************)
\* The grants on the handles created in calls of b.
GrantsOn(b) == { g \in acl : g[1][1] = b }

C28_Isolation ==
    [][ \A b \in Players \ {last'.sender} :
          /\ last'.op \in {"joinGame", "startRound", "submitGuess"}
          /\ joinedPlayers'[b] = joinedPlayers[b]
          /\ encryptedBalances'[b] = encryptedBalances[b]
          /\ rounds'[b] = rounds[b]
          /\ ciphertexts'[b] = ciphertexts[b]
          /\ GrantsOn(b)' = GrantsOn(b)
          /\ \A g \in GrantsOn(b) : g[2] \in {This, b} ]_vars

\* C28 witness: a call of one participant went through while the other had
\* a balance and an Active round, after calls of both.
C28_Witness ==
    \E a \in Players : \E b \in Players \ {a} :
        /\ Called("startRound", a, "ok")
        /\ joinedPlayers[b] /\ rounds[b].isActive
        /\ GrantsOn(b) # {}

(***************************************************************************)
(* C29: in every reachable state a participant's diceResult, lastGuess and *)
(* winFlag handles are either all the empty sentinel (exactly when that    *)
(* participant has never had a successful startRound, in which case        *)
(* isActive and hasHistory are both false) or all non-sentinel; a state    *)
(* with some but not all of the three set is unreachable.                  *)
(***************************************************************************)
\* None of p's three round handles is set.
NoRoundYet(p) ==
    /\ rounds[p].diceResult = NoHandle
    /\ rounds[p].lastGuess = NoHandle
    /\ rounds[p].winFlag = NoHandle

\* All of p's three round handles are set.
RoundSet(p) ==
    /\ rounds[p].diceResult # NoHandle
    /\ rounds[p].lastGuess # NoHandle
    /\ rounds[p].winFlag # NoHandle

AllOrNone(p) ==
    \/ NoRoundYet(p) /\ ~rounds[p].isActive /\ ~rounds[p].hasHistory
    \/ RoundSet(p)

C29_HandlesAllOrNone ==
    [][ \A p \in Players :
          /\ AllOrNone(p) /\ AllOrNone(p)'
          /\ SucceededBy("startRound", p) => RoundSet(p)'
          /\ (NoRoundYet(p) /\ ~SucceededBy("startRound", p)) => NoRoundYet(p)'
          /\ RoundSet(p) => RoundSet(p)' ]_vars

\* C29 witness: one participant has all three handles set, by a round that
\* was started and resolved, while another has joined and has none.
C29_Witness ==
    \E a \in Players : \E b \in Players \ {a} :
        /\ RoundSet(a) /\ rounds[a].hasHistory
        /\ joinedPlayers[b] /\ NoRoundYet(b)
        /\ Called("submitGuess", b, "RoundNotActive")

====
